---- MODULE Spec2Model ----
(***************************************************************************)
(* Classroom transcripts: the Streamlit upload page, the transcript list   *)
(* page (in its two copies, src/transcript_list_view.py and                *)
(* classroom_transcripts/transcript_list_view.py), the transcript manager  *)
(* script, the admin dashboard and the webhook function, as state          *)
(* machines over the table store, the blob store and the transcription     *)
(* vendor.                                                                 *)
(***************************************************************************)
EXTENDS Integers, Sequences, FiniteSets, TLC

VARIABLES
    user,            \* st.experimental_user of the session
    table,           \* the upload records of the table store, in query order
    blobs,           \* names of the blobs in the "uploads" container
    njobs,           \* number of jobs the upload page has submitted to the vendor
    now,             \* wall clock, in seconds
    session_state,   \* st.session_state of the session: a dict, keys set on first use
    clicks,          \* number of 'Load More' clicks of the session (history)
    page,            \* what the last run of a page script did and rendered
    account,         \* the vendor account: its jobs and their statuses
    manager,         \* st.session_state of the transcript manager script
    dashboard,       \* what the last run of the admin dashboard kept
    hook             \* the webhook function: its container and last response

vars == <<user, table, blobs, njobs, now, session_state, clicks, page,
          account, manager, dashboard, hook>>

\* the state of the vendor account and of the tools beside the app
others == <<account, manager, dashboard, hook>>

----------------------------------------------------------------------------
(* Bounds *)

\* the wall clock runs from 0 to MaxNow
MaxNow == 1

\* the upload page submits at most MaxJobs jobs to the vendor
MaxJobs == 1

----------------------------------------------------------------------------
(* Strings.  An email is a sequence of characters; str.lower() maps each   *)
(* character.                                                              *)

LowerChar(c) ==
    CASE c = "A" -> "a"
      [] c = "B" -> "b"
      [] c = "L" -> "l"
      [] c = "O" -> "o"
      [] c = "R" -> "r"
      [] OTHER -> c

Lower(s) == [i \in DOMAIN s |-> LowerChar(s[i])]

\* the emails a login can carry: two spellings of one address, and an admin
LoginEmails == { <<"a", "l">>, <<"A", "l">>, <<"R", "o">> }

\* st.secrets["admin_emails"], as configured
AdminSecret == { <<"R", "o">> }

ADMIN_EMAILS == { Lower(e) : e \in AdminSecret }

is_admin(email) == Lower(email) \in ADMIN_EMAILS

----------------------------------------------------------------------------
(* Transcript ids and statuses *)

\* a transcript id is <<prefix, n>>; "".startswith("test_") reads the prefix
TestId == <<"test_", 1>>
EmptyId == <<>>
JobId(n) == <<"tx", n>>

startswith_test(id) == Len(id) > 0 /\ id[1] = "test_"

Statuses == {"queued", "processing", "completed", "error", "failed"}

LoggedOut == [is_logged_in |-> FALSE]

NoPage == [kind |-> "none"]

\* the vendor account, the manager script, the dashboard and the webhook
\* function while the model leaves them out of play
NoAccount == [others |-> 0, jobs |-> 0, status |-> "queued"]
NoManager == [loaded |-> FALSE]
NoDashboard == [ran |-> FALSE]
NoHook == [transcriptions |-> {}, response |-> [code |-> 0]]

Min(a, b) == IF a < b THEN a ELSE b

\* the empty dict
EmptyMap == [k \in {} |-> "error"]

----------------------------------------------------------------------------
(* The vendor as the list page meets it in one run: `listing` is the       *)
(* account's transcripts, newest first, each [id, status]; `fetch` gives,  *)
(* per transcript id, how Transcript.get_by_id answers: `first` for the    *)
(* first call and `second` for a call that follows a failed one.           *)

FirstOutcomes == {"ok", "api", "validation", "validation_api", "other"}
SecondOutcomes == {"text", "no_text", "raise"}

\* ListTranscriptParameters(limit=100)
ListLimit == 100

ListedIds(entries) == { entries[i].id : i \in DOMAIN entries }

StatusOfEntry(e) == IF startswith_test(e.id) THEN "completed" ELSE e.status

\* the dict the loop over page.transcripts builds
StatusMap(entries) ==
    [id \in ListedIds(entries) |->
        StatusOfEntry(entries[CHOOSE i \in DOMAIN entries : entries[i].id = id])]

first_page(listing) == SubSeq(listing, 1, Min(ListLimit, Len(listing)))

\* src/transcript_list_view.py: one list_transcripts call, the first page
get_transcript_statuses(listing, listFail) ==
    IF listFail THEN EmptyMap ELSE StatusMap(first_page(listing))

\* classroom_transcripts/transcript_list_view.py: follows prev_url to the end
ct_get_transcript_statuses(listing, listFail) ==
    IF listFail THEN EmptyMap ELSE StatusMap(listing)

statuses_of(variant, listing, listFail) ==
    IF variant = "src"
    THEN get_transcript_statuses(listing, listFail)
    ELSE ct_get_transcript_statuses(listing, listFail)

----------------------------------------------------------------------------
(* Table queries *)

\* utils list_table_items: every entity of the table
list_table_items(tbl) == tbl

\* the OData filter  uploaderEmail eq '<value>'  : string equality
query_entities_eq(tbl, value) ==
    SelectSeq(tbl, LAMBDA r : "uploaderEmail" \in DOMAIN r /\ r.uploaderEmail = value)

query_table_entitiesNoFilter(tbl, user_email, tqFail) ==
    IF user_email = <<>> THEN <<>>
    ELSE IF tqFail THEN <<>>
    ELSE list_table_items(tbl)

query_table_entities(tbl, user_email, tqFail) ==
    IF user_email = <<>> THEN <<>>
    ELSE IF tqFail THEN <<>>
    ELSE IF ~is_admin(user_email)
         THEN query_entities_eq(tbl, Lower(user_email))
         ELSE list_table_items(tbl)

----------------------------------------------------------------------------
(* load_table_data *)

HasKey(r, k) == k \in DOMAIN r

WithField(r, k, v) == [x \in DOMAIN r \cup {k} |-> IF x = k THEN v ELSE r[x]]

item_statusAlwaysLookup(r, m) ==
    LET t == IF HasKey(r, "transcriptId") THEN r.transcriptId ELSE EmptyId
    IN IF t \in DOMAIN m THEN m[t] ELSE "error"

\* item_dict["status"]: the map's entry, "error" without one, "pending"
\* without the transcriptId key
item_status(r, m) ==
    IF HasKey(r, "transcriptId")
    THEN IF r.transcriptId \in DOMAIN m THEN m[r.transcriptId] ELSE "error"
    ELSE "pending"

\* the keys load_table_data looks up in transcript_statuses
map_lookups(items) ==
    { items[i].transcriptId : i \in { j \in DOMAIN items : HasKey(items[j], "transcriptId") } }

\* MIN_DATE = datetime(2000, 1, 1, tzinfo=pytz.UTC): before every upload
MIN_DATE == -100

\* an uploadTime string that datetime.fromisoformat rejects
unparsable == -999

\* the timestamp of an item (src 469-505, ct 252-269): uploadTime, without
\* the key the row's Timestamp or MIN_DATE; a value that does not parse
\* counts as MIN_DATE; the result is stored as _timestamp and uploadTime
process_timestamp(r) ==
    LET raw == IF HasKey(r, "uploadTime") THEN r.uploadTime
               ELSE IF HasKey(r, "Timestamp") THEN r.Timestamp ELSE MIN_DATE
        dt  == IF raw = unparsable THEN MIN_DATE ELSE raw
    IN WithField(WithField(r, "uploadTime", dt), "_timestamp", dt)

items_list_of(items, m) ==
    [i \in DOMAIN items |->
        process_timestamp(WithField(items[i], "status", item_status(items[i], m)))]

\* a page that takes the email whether verified or not
validated_emailUnchecked(u) == u.email

\* validated_email: the email of a verified user, None otherwise
validated_email(u) == IF u.email_verified THEN u.email ELSE <<>>

----------------------------------------------------------------------------
(* display_transcript_item: what one item's rendering calls, shows, logs   *)

NoEffect == [calls |-> <<>>, msgs |-> {}, logs |-> {}]

\* the "Refresh Status" button of a queued or processing item (src 696-709)
refresh_button(item) ==
    IF item.status \in {"queued", "processing"} THEN {item.RowKey} ELSE {}

\* one Transcript.get_by_id call: "ok", or the kind of exception it raised
Call(tid, outcome) == [tid |-> tid, ok |-> outcome = "ok", outcome |-> outcome]

item_tid(item) == IF HasKey(item, "transcriptId") THEN item.transcriptId ELSE EmptyId

second_outcome(f) == IF f.second = "raise" THEN "other" ELSE "ok"

\* the secondary fetch after a validation error (src 634-653, ct 325-331)
secondary_fetch(tid, f, pre) ==
    [calls |-> <<Call(tid, f.first), Call(tid, second_outcome(f))>>,
     msgs  |-> pre.msgs,
     logs  |-> pre.logs \cup
               (CASE f.second = "raise"   -> {"secondary_fetch_error"}
                  [] f.second = "no_text" -> {"secondary_invalid"}
                  [] OTHER                -> {})]

\* a fetch that tries again after any failure
fetch_completedRetryAll(tid, f) ==
    IF f.first = "ok"
    THEN [calls |-> <<Call(tid, "ok")>>, msgs |-> {}, logs |-> {}]
    ELSE secondary_fetch(tid, f, [msgs |-> {}, logs |-> {"validation_warning"}])

\* src/transcript_list_view.py 610-660
fetch_completed(tid, f) ==
    CASE f.first = "ok" ->
            [calls |-> <<Call(tid, "ok")>>, msgs |-> {}, logs |-> {}]
      [] f.first \in {"api", "validation_api"} ->
            [calls |-> <<Call(tid, f.first)>>,
             msgs |-> {"info_unavailable"}, logs |-> {"api_error"}]
      [] f.first = "validation" ->
            secondary_fetch(tid, f, [msgs |-> {}, logs |-> {"validation_warning"}])
      [] OTHER ->
            [calls |-> <<Call(tid, f.first)>>,
             msgs |-> {"info_unable"}, logs |-> {"unexpected_error"}]

\* classroom_transcripts/transcript_list_view.py 318-334
ct_fetch_completed(tid, f) ==
    CASE f.first = "ok" ->
            [calls |-> <<Call(tid, "ok")>>, msgs |-> {}, logs |-> {}]
      [] f.first \in {"validation", "validation_api"} ->
            secondary_fetch(tid, f, [msgs |-> {"warning_limited"},
                                     logs |-> {"validation_warning"}])
      [] OTHER ->
            [calls |-> <<Call(tid, f.first)>>,
             msgs |-> {"error_loading"}, logs |-> {"error_loading"}]

display_transcript_item(variant, item, fetch) ==
    IF item_tid(item) = EmptyId
    THEN \* "Missing transcript ID": logged (src) or shown (ct); return
         [calls |-> <<>>,
          msgs  |-> IF variant = "src" THEN {} ELSE {"error_missing_id"},
          logs  |-> IF variant = "src" THEN {"missing_id"} ELSE {}]
    ELSE IF item.status = "completed"
    THEN IF variant = "src"
         THEN fetch_completed(item_tid(item), fetch[item_tid(item)])
         ELSE ct_fetch_completed(item_tid(item), fetch[item_tid(item)])
    ELSE NoEffect

\* the items, among the first n, rendered with a "Refresh Status" button
refresh_buttons(items, n) ==
    UNION { IF item_tid(items[i]) = EmptyId THEN {} ELSE refresh_button(items[i]) :
              i \in 1..n }

----------------------------------------------------------------------------
(* display_table_data *)

\* list.sort(key=_timestamp, reverse=True): stable, newest first
RECURSIVE InsertDesc(_, _)
InsertDesc(x, s) ==
    IF s = <<>> THEN <<x>>
    ELSE IF Head(s)["_timestamp"] >= x["_timestamp"]
         THEN <<Head(s)>> \o InsertDesc(x, Tail(s))
         ELSE <<x>> \o s

\* a page that leaves the list in the table's order
SortDescSkipped(s) == s

RECURSIVE SortDesc(_)
SortDesc(s) ==
    IF s = <<>> THEN <<>>
    ELSE InsertDesc(s[Len(s)], SortDesc(SubSeq(s, 1, Len(s) - 1)))

\* the effects of rendering items 1..n, in order
RECURSIVE render_items(_, _, _, _)
render_items(variant, items, n, fetch) ==
    IF n = 0 THEN NoEffect
    ELSE LET before == render_items(variant, items, n - 1, fetch)
             e == display_transcript_item(variant, items[n], fetch)
         IN [calls |-> before.calls \o e.calls,
             msgs  |-> before.msgs \cup e.msgs,
             logs  |-> before.logs \cup e.logs]

\* app.py: the pages of the navigation
pages_list(u) ==
    IF u.is_logged_in THEN <<"upload", "transcripts">> ELSE <<"upload">>

\* one run of the list page by a logged-in user
display_table_data(variant, u, tbl, per_page, tqFail, listFail, listing, fetch) ==
    LET email   == validated_email(u)
        queried == email # <<>>
        found   == IF queried THEN query_table_entities(tbl, email, tqFail) ELSE <<>>
        listed  == found # <<>>
        m       == IF listed THEN statuses_of(variant, listing, listFail) ELSE EmptyMap
        sorted  == SortDesc(items_list_of(found, m))
        total   == Len(sorted)
        shown   == Min(per_page, total)
        eff     == render_items(variant, sorted, shown, fetch)
    IN [kind      |-> "list",
        variant   |-> variant,
        nav       |-> pages_list(u),
        table_client |-> TRUE,
        loaded    |-> TRUE,
        email     |-> email,
        admin     |-> queried /\ is_admin(email),
        queried   |-> queried,
        listed    |-> listed,
        lookups   |-> map_lookups(found),
        items     |-> sorted,
        shown     |-> shown,
        calls     |-> eff.calls,
        refresh   |-> refresh_buttons(sorted, shown),
        msgs      |-> eff.msgs
                      \cup (IF total = 0 THEN {"info_no_files"} ELSE {})
                      \cup (IF listed /\ listFail /\ variant = "ct"
                            THEN {"error_statuses"} ELSE {}),
        logs      |-> eff.logs
                      \cup (IF queried /\ tqFail THEN {"table_query_error"} ELSE {})
                      \cup (IF listed /\ listFail /\ variant = "src"
                            THEN {"status_fetch_error"} ELSE {}),
        failures  |-> (IF queried /\ tqFail THEN {"table_query"} ELSE {})
                      \cup (IF listed /\ listFail THEN {"status_list"} ELSE {})
                      \cup (IF \E i \in DOMAIN eff.calls : ~eff.calls[i].ok
                            THEN {"get_by_id"} ELSE {}),
        load_more |-> per_page < total,
        remaining |-> IF per_page < total THEN total - per_page ELSE 0]

----------------------------------------------------------------------------
(* The upload page: src/upload.py *)

\* the names a user's file can have
Filenames == { <<"r">>, <<"r", "!">> }

isalnum(c) == c \in {"r", "a", "b"}

\* "".join(c for c in original_filename if c.isalnum() or c in "._- ")
clean_filename(f) == SelectSeq(f, LAMBDA c : isalnum(c) \/ c \in {".", "_", "-", " "})

\* f"{timestamp}_{clean_filename}", the timestamp to the second
generate_unique_blob_name(t, f) == <<t, clean_filename(f)>>

\* utils.transcript_mapping.create_upload_entity
create_upload_entity(blob_name, transcript_id, t) ==
    [RowKey |-> blob_name, transcriptId |-> transcript_id, uploadTime |-> t]

\* the entity store_mapping_in_table writes
upload_entity(u, blob_name, transcript_id, t) ==
    WithField(create_upload_entity(blob_name, transcript_id, t), "uploaderEmail", u.email)

SubmitOutcomes == {"queued", "error_status", "raise"}

\* upload_to_azure: upload_blob(overwrite=False) fails on an existing name
upload_fails(name, blobFail) == blobFail \/ name \in blobs

UploadFailure(outcome) ==
    CASE outcome = "upload_failed" -> {"blob_upload"}
      [] outcome = "submit_failed" -> {"submit"}
      [] outcome = "write_failed"  -> {"table_write"}
      [] OTHER -> {}

\* submit_transcription (226-246): the vendor's id and status, or the
\* sentinel {"id": "error", "status": "error"} when submit raises
submit_transcription(sub, n) ==
    CASE sub = "raise"        -> [id |-> <<"error">>, status |-> "error"]
      [] sub = "error_status" -> [id |-> JobId(n + 1), status |-> "error"]
      [] OTHER                -> [id |-> JobId(n + 1), status |-> "queued"]

\* the vendor has one job more unless submit raised
jobs_after(sub, n) == IF sub = "raise" THEN n ELSE n + 1

stores_mappingAlways(transcript) == TRUE

\* if transcript["status"] == "queued": (413)
stores_mapping(transcript) == transcript.status = "queued"

\* the calls of one submission, in the order the handler makes them
upload_steps(outcome) ==
    CASE outcome = "no_class"      -> <<>>
      [] outcome = "upload_failed" -> <<"upload_to_azure">>
      [] outcome \in {"submit_failed", "submit_rejected"} ->
            <<"upload_to_azure", "submit_transcription">>
      [] outcome = "write_failed" ->
            <<"upload_to_azure", "submit_transcription", "store_mapping_in_table">>
      [] OTHER ->
            <<"upload_to_azure", "submit_transcription", "store_mapping_in_table",
              "handle_successful_upload">>

\* handle_successful_upload (312-321): recent_uploads is created on first
\* use and the upload appended
handle_successful_upload(ss, name, tid) ==
    LET old == IF HasKey(ss, "recent_uploads") THEN ss["recent_uploads"] ELSE <<>>
    IN WithField(ss, "recent_uploads",
                 Append(old, [blob_name |-> name, transcript_id |-> tid]))

UploadPage(outcome, name, transcript, msgs, logs, raised) ==
    [kind |-> "upload", outcome |-> outcome,
     name |-> IF outcome = "no_class" THEN <<>> ELSE name,
     blob |-> IF outcome \in {"no_class", "upload_failed"} THEN <<>> ELSE name,
     job |-> transcript.id,
     status |-> transcript.status, steps |-> upload_steps(outcome),
     email |-> user.email, msgs |-> msgs, logs |-> logs,
     failures |-> UploadFailure(outcome), ended |-> IF raised THEN "raised" ELSE "done"]

\* no call of submit_transcription was made
NoTranscript == [id |-> EmptyId, status |-> "none"]

\* the submit handler of the upload form (398-435), start to end
SubmitUpload ==
    /\ page = NoPage
    /\ user.is_logged_in
    /\ njobs < MaxJobs
    /\ \E f \in Filenames, class_empty \in BOOLEAN, blobFail \in BOOLEAN,
          sub \in SubmitOutcomes, writeFail \in BOOLEAN :
        LET name == generate_unique_blob_name(now, f)
            transcript == submit_transcription(sub, njobs)
        IN  IF class_empty
            THEN /\ page' = UploadPage("no_class", name, NoTranscript,
                                       {"error_class_name"}, {}, FALSE)
                 /\ UNCHANGED <<blobs, njobs, table, session_state>>
            ELSE IF upload_fails(name, blobFail)
            THEN /\ page' = UploadPage("upload_failed", name, NoTranscript,
                                       {"error_upload", "error_storage"},
                                       {"upload_error"}, FALSE)
                 /\ UNCHANGED <<blobs, njobs, table, session_state>>
            ELSE IF ~stores_mapping(transcript)
            THEN /\ blobs' = blobs \cup {name}
                 /\ njobs' = jobs_after(sub, njobs)
                 /\ page' = IF sub = "raise"
                            THEN UploadPage("submit_failed", name, transcript,
                                       {"error_transcribe", "error_submission"},
                                       {"submit_error", "transcription_failed"}, FALSE)
                            ELSE UploadPage("submit_rejected", name, transcript,
                                       {"error_submission"},
                                       {"transcription_failed"}, FALSE)
                 /\ UNCHANGED <<table, session_state>>
            ELSE IF writeFail
            THEN \* store_mapping_in_table logs and re-raises
                 /\ blobs' = blobs \cup {name}
                 /\ njobs' = jobs_after(sub, njobs)
                 /\ page' = UploadPage("write_failed", name, transcript,
                                       {}, {"store_mapping_error"}, TRUE)
                 /\ UNCHANGED <<table, session_state>>
            ELSE /\ blobs' = blobs \cup {name}
                 /\ njobs' = jobs_after(sub, njobs)
                 /\ table' = Append(table, upload_entity(user, name, transcript.id, now))
                 /\ session_state' = handle_successful_upload(session_state, name,
                                                              transcript.id)
                 /\ page' = UploadPage("stored", name, transcript,
                                       {"success"}, {}, FALSE)
    /\ UNCHANGED <<user, now, clicks, others>>

----------------------------------------------------------------------------
(* Session and clock *)

EmptySession == [k \in {} |-> 0]

\* st.login(): the identity provider returns the user; a new session starts
Login ==
    /\ page = NoPage
    /\ ~user.is_logged_in
    /\ \E e \in LoginEmails, v \in BOOLEAN :
         user' = [is_logged_in |-> TRUE, email |-> e, email_verified |-> v]
    /\ session_state' = EmptySession
    /\ clicks' = 0
    /\ page' = NoPage
    /\ UNCHANGED <<table, blobs, njobs, now, others>>

\* st.logout()
Logout ==
    /\ page = NoPage
    /\ user.is_logged_in
    /\ user' = LoggedOut
    /\ session_state' = EmptySession
    /\ clicks' = 0
    /\ page' = NoPage
    /\ UNCHANGED <<table, blobs, njobs, now, others>>

\* the rendered page is discarded: the user navigates away or the script
\* is about to run again
ClearPage ==
    /\ page # NoPage
    /\ page' = NoPage
    /\ UNCHANGED <<user, table, blobs, njobs, now, session_state, clicks, others>>

----------------------------------------------------------------------------
(* The transcript list page *)

Variants == {"src", "ct"}

\* the session's items_per_page once the page's initialisation has run
init_pagination(ss) ==
    [k \in DOMAIN ss \cup {"items_per_page", "current_page"} |->
        IF k \in DOMAIN ss THEN ss[k]
        ELSE IF k = "items_per_page" THEN 5 ELSE 1]

\* how the vendor can answer for one transcript id in one run: the job is
\* absent from the account, or listed with a status; get_by_id of a
\* completed job succeeds or raises
Behaviours ==
    {[st |-> "absent", first |-> "ok", second |-> "text"]}
    \cup { [st |-> s, first |-> "ok", second |-> "text"] : s \in Statuses }
    \cup { [st |-> "completed", first |-> f, second |-> "text"] :
             f \in {"api", "validation_api", "other"} }
    \cup { [st |-> "completed", first |-> "validation", second |-> g] :
             g \in SecondOutcomes }

\* the transcript ids of the records the user's query can return
VisibleTids ==
    IF ~user.is_logged_in THEN {}
    ELSE LET found == query_table_entities(table, validated_email(user), FALSE)
         IN { item_tid(found[i]) : i \in DOMAIN found } \ {EmptyId}

RECURSIVE SetToSeq(_)
SetToSeq(S) ==
    IF S = {} THEN <<>>
    ELSE LET x == CHOOSE y \in S : TRUE IN <<x>> \o SetToSeq(S \ {x})

\* the account's listing under behaviour beh
ListingOf(beh) ==
    LET ids == SetToSeq({ t \in DOMAIN beh : beh[t].st # "absent" })
    IN [i \in DOMAIN ids |-> [id |-> ids[i], status |-> beh[ids[i]].st]]

\* the page stopped at the login check (src 35-38), or failed in
\* load_table_data on the missing user.email_verified (ct 234-235)
EndedEarly(variant, how) ==
    [kind |-> "list", variant |-> variant, ended |-> how, email |-> <<>>,
     nav |-> pages_list(user),
     \* ct: st.login() returns, the script goes on to get_table_client()
     \* and load_table_data()
     table_client |-> how = "raised", loaded |-> how = "raised",
     admin |-> FALSE, queried |-> FALSE, listed |-> FALSE, lookups |-> {},
     items |-> <<>>, shown |-> 0, calls |-> <<>>, refresh |-> {},
     msgs |-> {}, logs |-> {}, failures |-> {}, load_more |-> FALSE, remaining |-> 0]

run_list_page(variant, ss, tqFail, listFail, listing, fetch) ==
    IF ~user.is_logged_in
    THEN IF variant = "src"
         THEN WithField(EndedEarly(variant, "stopped_login"), "msgs", {"info_login"})
         ELSE EndedEarly(variant, "raised")
    ELSE WithField(display_table_data(variant, user, table, ss["items_per_page"],
                                      tqFail, listFail, listing, fetch),
                   "ended", "done")

session_after_run(variant, ss) ==
    IF ~user.is_logged_in /\ variant = "src" THEN ss ELSE init_pagination(ss)

\* the vendor's answers when the run does not come to ask for them
Unasked == [t \in VisibleTids |-> [st |-> "absent", first |-> "ok", second |-> "text"]]

\* one run of the page script, top to bottom: the table query fails, or
\* the status list fails, or both answer and the vendor behaves as beh
RunListPage ==
    /\ page = NoPage
    /\ \E variant \in Variants, fails \in {"table_query", "status_list", "none"} :
         /\ session_state' = session_after_run(variant, session_state)
         /\ IF fails = "none"
            THEN \E beh \in [VisibleTids -> Behaviours] :
                   page' = run_list_page(variant, init_pagination(session_state),
                                         FALSE, FALSE, ListingOf(beh), beh)
            ELSE page' = run_list_page(variant, init_pagination(session_state),
                                       fails = "table_query", fails = "status_list",
                                       ListingOf(Unasked), Unasked)
    /\ UNCHANGED <<user, table, blobs, njobs, now, clicks, others>>

----------------------------------------------------------------------------
(* The list page against a vendor account.  The account holds `jobs` jobs  *)
(* of the app, JobId(1) the newest, all with one status, and `others` jobs *)
(* submitted after them by other clients of the same API key;              *)
(* list_transcripts answers newest first.                                  *)

\* the clock stops after MaxNow seconds; the account holds up to
\* ListLimit + Margin other jobs
Margin == 1

MaxOthers == ListLimit + Margin

OtherId(n) == <<"other", n>>

AccountListing(a) ==
    [i \in 1..(a.others + a.jobs) |->
        IF i <= a.others
        THEN [id |-> OtherId(i), status |-> "completed"]
        ELSE [id |-> JobId(i - a.others), status |-> a.status]]

\* what the vendor reports for a transcript id: its status, or that the
\* account does not hold it
Reported(a, tid) ==
    LET l == AccountListing(a)
    IN IF \E i \in DOMAIN l : l[i].id = tid
       THEN StatusOfEntry(l[CHOOSE i \in DOMAIN l : l[i].id = tid])
       ELSE "absent"

TableTids == { item_tid(table[i]) : i \in DOMAIN table } \ {EmptyId}

\* get_by_id of a job the account holds answers
AccountFetch == [t \in TableTids |-> [st |-> "completed", first |-> "ok", second |-> "text"]]

\* one run of the page script against the account, caused by `cause`, over
\* the page `prev` the browser showed before
poll_account(variant, ss, cause, prev) ==
    LET r == run_list_page(variant, ss, FALSE, FALSE, AccountListing(account), AccountFetch)
    IN [k \in DOMAIN r \cup {"cause", "at", "repoll", "elapsed", "reported"} |->
          CASE k = "cause"    -> cause
            [] k = "at"       -> now
            [] k = "repoll"   -> prev # NoPage
            [] k = "elapsed"  -> IF prev # NoPage THEN now - prev.at ELSE 0
            [] k = "reported" -> [t \in TableTids |-> Reported(account, t)]
            [] OTHER          -> r[k]]

\* the user opens the list page
OpenListPage ==
    /\ page = NoPage
    /\ \E variant \in Variants :
         /\ session_state' = session_after_run(variant, session_state)
         /\ page' = poll_account(variant, init_pagination(session_state), "open", page)
    /\ UNCHANGED <<user, table, blobs, njobs, now, clicks, others>>

\* a click on an item's "Refresh Status" button: st.rerun()
ClickRefreshStatus ==
    /\ page.kind = "list"
    /\ page.refresh # {}
    /\ page' = poll_account(page.variant, session_state, "refresh_click", page)
    /\ UNCHANGED <<user, table, blobs, njobs, now, session_state, clicks, others>>

\* a page that polls again by itself once a second has passed
TickAutoRefresh ==
    /\ now < MaxNow
    /\ now' = now + 1
    /\ IF page.kind = "list" /\ page.refresh # {}
       THEN page' = [poll_account(page.variant, session_state, "timer", page)
                       EXCEPT !.at = now + 1, !.elapsed = now + 1 - page.at]
       ELSE page' = page
    /\ UNCHANGED <<user, table, blobs, njobs, session_state, clicks, others>>

\* a second of wall-clock time passes; no script runs
Tick ==
    /\ now < MaxNow
    /\ now' = now + 1
    /\ UNCHANGED <<user, table, blobs, njobs, session_state, clicks, page, others>>

\* the vendor works on the app's jobs
VendorProgress ==
    /\ account.jobs > 0
    /\ \/ account.status = "queued" /\ account' = [account EXCEPT !.status = "processing"]
       \/ account.status = "processing"
          /\ \E s \in {"completed", "error"} : account' = [account EXCEPT !.status = s]
    /\ UNCHANGED <<user, table, blobs, njobs, now, session_state, clicks, page,
                   manager, dashboard, hook>>

\* another client of the API key submits a job
VendorSubmitOther ==
    /\ account.others < MaxOthers
    /\ account' = [account EXCEPT !.others = @ + 1]
    /\ UNCHANGED <<user, table, blobs, njobs, now, session_state, clicks, page,
                   manager, dashboard, hook>>

TeacherAl == [is_logged_in |-> TRUE, email |-> <<"a", "l">>, email_verified |-> TRUE]

\* the record of the user's k-th upload
UploadRecord(k) == upload_entity(TeacherAl, <<0 - k, <<"r">>>>, JobId(k), 0 - k)

InitStatus ==
    /\ user = TeacherAl
    /\ table = <<UploadRecord(1)>>
    /\ blobs = {}
    /\ njobs = 0
    /\ now = 0
    /\ session_state = EmptySession
    /\ clicks = 0
    /\ page = NoPage
    /\ account \in { [others |-> n, jobs |-> 1, status |-> "queued"] : n \in 0..MaxOthers }
    /\ manager = NoManager
    /\ dashboard = NoDashboard
    /\ hook = NoHook

NextStatus ==
    \/ OpenListPage
    \/ ClickRefreshStatus
    \/ ClearPage
    \/ Tick
    \/ VendorProgress
    \/ VendorSubmitOther

SpecStatus == InitStatus /\ [][NextStatus]_vars
----------------------------------------------------------------------------
(* Pagination of the list page: a user with up to MaxRecords uploads *)

MaxRecords == 11

\* a 'Load More' that doubles the page size
load_moreDouble(ss) == [ss EXCEPT !["items_per_page"] = @ * 2]

\* a click that leaves items_per_page as it is
load_moreStuck(ss) == ss

\* st.session_state.items_per_page += 5
load_more(ss) == [ss EXCEPT !["items_per_page"] = @ + 5]

\* a click on 'Load More (n remaining)': the increment, then st.rerun()
ClickLoadMore ==
    /\ page.kind = "list"
    /\ page.load_more
    /\ session_state' = load_more(session_state)
    /\ clicks' = clicks + 1
    /\ page' = poll_account(page.variant, session_state', "load_more_click", page)
    /\ UNCHANGED <<user, table, blobs, njobs, now, others>>

InitPaging ==
    /\ user = TeacherAl
    /\ \E n \in 0..MaxRecords :
         /\ table = [k \in 1..n |-> UploadRecord(k)]
         /\ account \in { [others |-> 0, jobs |-> n, status |-> s] :
                            s \in {"queued", "completed"} }
    /\ blobs = {}
    /\ njobs = 0
    /\ now = 0
    /\ session_state = EmptySession
    /\ clicks = 0
    /\ page = NoPage
    /\ manager = NoManager
    /\ dashboard = NoDashboard
    /\ hook = NoHook

NextPaging ==
    \/ OpenListPage
    \/ ClickLoadMore
    \/ ClickRefreshStatus
    \/ ClearPage
    \/ VendorProgress

SpecPaging == InitPaging /\ [][NextPaging]_vars

\* the table holds MaxShuffled records of one teacher in any order of
\* upload time: two instants or a value that does not parse; the first
\* record may have no uploadTime at all
MaxShuffled == 6

InitOrder ==
    /\ user = TeacherAl
    /\ \E times \in { t \in [1..MaxShuffled -> {0, 1, 2, unparsable}] :
                          \A k \in 2..MaxShuffled : t[k] # 0 } :
         table = [k \in 1..MaxShuffled |->
                    IF times[k] = 0
                    THEN [RowKey |-> <<k, <<"r">>>>, transcriptId |-> JobId(k),
                          uploaderEmail |-> TeacherAl.email]
                    ELSE upload_entity(TeacherAl, <<k, <<"r">>>>, JobId(k), times[k])]
    /\ account = [others |-> 0, jobs |-> MaxShuffled, status |-> "queued"]
    /\ blobs = {}
    /\ njobs = 0
    /\ now = 0
    /\ session_state = EmptySession
    /\ clicks = 0
    /\ page = NoPage
    /\ manager = NoManager
    /\ dashboard = NoDashboard
    /\ hook = NoHook

NextOrder ==
    \/ OpenListPage
    \/ ClickLoadMore
    \/ ClearPage

SpecOrder == InitOrder /\ [][NextOrder]_vars

----------------------------------------------------------------------------
(* The transcript manager script: scripts/delete_transcript.py *)

\* the vendor answers a listing with at most MaxLoaded transcripts
MaxLoaded == 2

None == <<"None">>

\* `needle in hay` for strings
Contains(hay, needle) ==
    \E i \in 0..(Len(hay) - Len(needle)) :
       \A j \in 1..Len(needle) : hay[i + j] = needle[j]

\* the list comprehension [t for t in items if keep(t)]
Comprehension(items, Keep) ==
    LET kept == { i \in DOMAIN items : Keep[items[i]] }
        nth(k) == CHOOSE i \in kept : Cardinality({ j \in kept : j <= i }) = k
    IN [k \in 1..Cardinality(kept) |-> items[nth(k)]]

\* the elements of a list
Elements(items) == { items[i] : i \in DOMAIN items }

\* a status filter that compares with the wrong sense
filter_transcriptsNegated(transcripts, search_term, status_filter) ==
    LET searched ==
          IF search_term # <<>>
          THEN Comprehension(transcripts, [t \in Elements(transcripts) |->
                  \/ Contains(Lower(t.id), Lower(search_term))
                  \/ (t.audio_url # None
                        /\ Contains(Lower(t.audio_url), Lower(search_term)))])
          ELSE transcripts
    IN IF status_filter # "All"
       THEN Comprehension(searched, [t \in Elements(searched) |-> t.status # status_filter])
       ELSE searched

filter_transcripts(transcripts, search_term, status_filter) ==
    LET searched ==
          IF search_term # <<>>
          THEN Comprehension(transcripts, [t \in Elements(transcripts) |->
                  \/ Contains(Lower(t.id), Lower(search_term))
                  \/ (t.audio_url # None
                        /\ Contains(Lower(t.audio_url), Lower(search_term)))])
          ELSE transcripts
    IN IF status_filter # "All"
       THEN Comprehension(searched, [t \in Elements(searched) |-> t.status = status_filter])
       ELSE searched

\* a slice that starts one page late
paginateFromEnd(items, current, per_page) ==
    SubSeq(items, Min(current * per_page, Len(items)) + 1,
                  Min((current + 1) * per_page, Len(items)))

\* items[start_idx:end_idx]
paginate(items, current, per_page) ==
    SubSeq(items, Min((current - 1) * per_page, Len(items)) + 1,
                  Min(current * per_page, Len(items)))

status_options == <<"All", "queued", "processing", "completed", "error", "failed">>

SearchTerms == { <<>>, <<"a">>, <<"B">> }

\* what the vendor's listing can hold
ManagerStatuses == {"queued", "completed", "error"}

ManagerTranscripts ==
    { [id |-> <<"A">>, audio_url |-> None, status |-> s] : s \in ManagerStatuses }
    \cup { [id |-> <<"b">>, audio_url |-> <<"x", "b">>, status |-> s] : s \in ManagerStatuses }

SeqsUpTo(S, n) == UNION { [1..k -> S] : k \in 0..n }

\* st.session_state.transcript_details = None
NoDetails == [id |-> None]

\* no call of delete_transcript is under way
NoEnv == [api_key |-> TRUE, response |-> "none"]

\* the session state once the script's initialisation has run (18-31),
\* with what the last run computed and rendered: the filtered list, the
\* page shown, the buttons offered, the widget whose click started the
\* run, the selectbox's value, the calls and HTTP requests made
manager_defaults(m) ==
    IF m.loaded THEN m
    ELSE [loaded |-> TRUE, transcripts |-> <<>>, search_term |-> <<>>,
          status_filter |-> "All", current_page |-> 1, items_per_page |-> 10,
          transcript_details |-> NoDetails,
          filtered |-> <<>>, page_transcripts |-> <<>>, msgs |-> {},
          total_pages |-> 1, paginated |-> 1, adjusted |-> FALSE,
          offered |-> {}, pressed |-> "none",
          selected |-> None, calls |-> <<>>, requests |-> <<>>, env |-> NoEnv]

\* max(1, (total_items + items_per_page - 1) // items_per_page)
total_pages_of(total_items, items_per_page) ==
    LET pages == (total_items + items_per_page - 1) \div items_per_page
    IN IF pages > 1 THEN pages ELSE 1

adjust_current_pageNever(current_page, total_pages) == current_page

\* if current_page > total_pages: current_page = total_pages
adjust_current_page(current_page, total_pages) ==
    IF current_page > total_pages THEN total_pages ELSE current_page

\* the part of the script that processes the loaded transcripts (322-351)
process_transcripts(m) ==
    IF m.transcripts = <<>>
    THEN [m EXCEPT !.filtered = <<>>, !.page_transcripts = <<>>]
    ELSE LET filtered == filter_transcripts(m.transcripts, m.search_term, m.status_filter)
             total_items == Len(filtered)
             total_pages == total_pages_of(total_items, m.items_per_page)
             current == adjust_current_page(m.current_page, total_pages)
         IN [m EXCEPT !.filtered = filtered,
                      !.total_pages = total_pages,
                      !.current_page = current,
                      !.paginated = current,
                      !.adjusted = current # m.current_page,
                      !.page_transcripts = paginate(filtered, current, m.items_per_page)]

\* what list_transcripts(limit=100) can return
ListResults ==
    { [success |-> FALSE, transcripts |-> <<>>] }
    \cup { [success |-> TRUE, transcripts |-> l] :
             l \in SeqsUpTo(ManagerTranscripts, MaxLoaded) }

\* load_transcripts: the listing replaces the session's, or an error shows
load_transcripts(m, result) ==
    IF result.success THEN [m EXCEPT !.transcripts = result.transcripts, !.msgs = {}]
    ELSE [m EXCEPT !.msgs = {"error_list"}]

\* one run of the script with the sidebar's search box and status filter
\* set; the transcripts are loaded when the session holds none
RunManager ==
    /\ ~dashboard.ran
    /\ \E search \in SearchTerms, f \in DOMAIN status_options :
         LET m0 == [manager_defaults(manager) EXCEPT
                      !.search_term = search, !.status_filter = status_options[f],
                      !.msgs = {}]
         IN IF m0.transcripts = <<>>
            THEN \E result \in ListResults :
                   manager' = process_transcripts(load_transcripts(m0, result))
            ELSE manager' = process_transcripts(m0)
    /\ UNCHANGED <<user, table, blobs, njobs, now, session_state, clicks, page,
                   account, dashboard, hook>>

\* a click on the sidebar's Refresh button: load_transcripts, then the rest
\* of the script
ClickRefresh ==
    /\ manager.loaded
    /\ \E result \in ListResults :
         LET m1 == load_transcripts(manager, result)
         IN IF m1.transcripts = <<>>
            THEN \* the script's own load runs as well, the session being empty
                 \E again \in ListResults :
                   manager' = process_transcripts(load_transcripts(m1, again))
            ELSE manager' = process_transcripts(m1)
    /\ UNCHANGED <<user, table, blobs, njobs, now, session_state, clicks, page,
                   account, dashboard, hook>>

\* the browser tab of the manager is closed
CloseManager ==
    /\ manager.loaded
    /\ manager' = NoManager
    /\ UNCHANGED <<user, table, blobs, njobs, now, session_state, clicks, page,
                   account, dashboard, hook>>

----------------------------------------------------------------------------
(* The transcript manager's buttons. One run of the script is started by   *)
(* one widget: `pressed` names it, and st.button returns True for that     *)
(* button in that run only.                                                *)

\* the vendor's listing holds up to MaxListed transcripts
MaxListed == 11

\* the i-th transcript of the listing: ids differ, statuses alternate
ListedTranscript(i) ==
    [id |-> <<IF i % 2 = 0 THEN "a" ELSE "B",
              <<"0", "1", "2", "3", "4", "5", "6", "7", "8", "9", "x", "y", "z">>[i]>>,
     audio_url |-> None,
     status |-> <<"queued", "completed", "error">>[(i % 3) + 1]]

ManagerListing(n) == [i \in 1..n |-> ListedTranscript(i)]

\* listings of one page, of two and of three at five items a page
ListedCounts == {1, MaxListed \div 2 + 1, MaxListed}

\* options=[5, 10, 25, 50] of the items-per-page slider
items_per_page_options == {5, 10, 25, 50}

\* the API key is missing, or the vendor answers the DELETE request
DeleteEnvs ==
    { [api_key |-> FALSE, response |-> "none"] }
    \cup [api_key : {TRUE}, response : {"200", "500", "raise"}]

\* delete_transcript (40-70): without an API key it returns before any
\* request; else one DELETE request, a success when the answer is 200
delete_transcript(transcript_id, env) ==
    IF ~env.api_key
    THEN [success |-> FALSE, requests |-> <<>>]
    ELSE [success |-> env.response = "200", requests |-> <<transcript_id>>]

\* the body of the 'Confirm Delete' branch (423-443)
confirm_delete(m, selected_transcript_id, env) ==
    LET result == delete_transcript(selected_transcript_id, env)
        called == [m EXCEPT !.calls = Append(@, selected_transcript_id),
                            !.requests = @ \o result.requests]
    IN IF result.success
       THEN [called EXCEPT
               !.msgs = @ \cup {"success_delete"},
               !.transcripts =
                   Comprehension(@, [t \in Elements(@) |-> t.id # selected_transcript_id]),
               !.transcript_details =
                   IF @ # NoDetails /\ @.id = selected_transcript_id
                   THEN NoDetails ELSE @]
       ELSE [called EXCEPT !.msgs = @ \cup {"error_delete"}]

\* the 'Delete Transcript' button and what is nested under it (409-443):
\* the warning, Cancel and Confirm Delete exist only in a run in which
\* delete_pressed is True
delete_flow(m, pressed, selected_transcript_id, env) ==
    LET delete_pressed == pressed = "delete"
    IN IF ~delete_pressed THEN m
       ELSE LET warned == [m EXCEPT !.msgs = @ \cup {"warning_delete"},
                                    !.offered = @ \cup {"cancel", "confirm"}]
            IN IF pressed = "cancel" THEN warned
               ELSE IF pressed = "confirm"
               THEN confirm_delete(warned, selected_transcript_id, env)
               ELSE warned

\* the 'View Details' button (400-407)
view_details(m, pressed, selected_transcript_id, details_ok) ==
    IF pressed # "view" THEN m
    ELSE IF details_ok
    THEN [m EXCEPT !.transcript_details = [id |-> selected_transcript_id]]
    ELSE [m EXCEPT !.msgs = @ \cup {"error_details"}]

\* the pagination buttons (367-383): each exists under its condition, and
\* a click changes current_page and calls st.rerun()
pagination_controls(m) ==
    (IF m.current_page > 1 THEN {"previous"} ELSE {})
    \cup (IF m.current_page < m.total_pages THEN {"next"} ELSE {})

pagination_click(m, pressed) ==
    IF pressed = "previous" /\ m.current_page > 1
    THEN [m EXCEPT !.current_page = @ - 1]
    ELSE IF pressed = "next" /\ m.current_page < m.total_pages
    THEN [m EXCEPT !.current_page = @ + 1]
    ELSE m

\* 'Close Details' (493-495)
close_details(m, pressed) ==
    IF pressed = "close_details" /\ m.transcript_details # NoDetails
    THEN [m EXCEPT !.transcript_details = NoDetails]
    ELSE m

\* what the script renders below the table (360-495) once the page of
\* transcripts is computed; nothing of it exists when the page is empty
render_actions(m, pressed, selected_transcript_id, env, details_ok) ==
    IF m.page_transcripts = <<>> THEN [m EXCEPT !.offered = {}]
    ELSE LET shown   == [m EXCEPT !.offered = pagination_controls(m) \cup {"view", "delete"}]
             viewed  == view_details(shown, pressed, selected_transcript_id, details_ok)
             deleted == delete_flow(viewed, pressed, selected_transcript_id, env)
         IN [deleted EXCEPT !.offered =
                @ \cup (IF deleted.transcript_details # NoDetails
                        THEN {"close_details"} ELSE {})]

\* one run of the script started by the widget `pressed`, with the run
\* st.rerun() starts after a pagination click or Close Details
run_manager(m, pressed, selected_transcript_id, env, details_ok) ==
    LET fresh == [m EXCEPT !.msgs = {}, !.calls = <<>>, !.requests = <<>>,
                           !.pressed = pressed, !.env = env,
                           !.selected = IF pressed \in {"delete", "confirm", "cancel"}
                                        THEN selected_transcript_id ELSE None]
        first == process_transcripts(fresh)
        clicked == close_details(pagination_click(first, pressed), pressed)
    IN IF clicked # first
       THEN render_actions(process_transcripts(clicked), "none",
                           selected_transcript_id, env, details_ok)
       ELSE render_actions(first, pressed, selected_transcript_id, env, details_ok)

\* the ids the selectbox offers
SelectOptions(m) == { m.page_transcripts[i].id : i \in DOMAIN m.page_transcripts }

\* the sidebar's search box is edited
ChangeSearch ==
    /\ manager.loaded
    /\ \E search \in SearchTerms :
         /\ search # manager.search_term
         /\ manager' = run_manager([manager EXCEPT !.search_term = search],
                                   "sidebar", None, NoEnv, TRUE)
    /\ UNCHANGED <<user, table, blobs, njobs, now, session_state, clicks, page,
                   account, dashboard, hook>>

\* the sidebar's status filter is changed
ChangeStatusFilter ==
    /\ manager.loaded
    /\ \E f \in DOMAIN status_options :
         /\ status_options[f] # manager.status_filter
         /\ manager' = run_manager([manager EXCEPT !.status_filter = status_options[f]],
                                   "sidebar", None, NoEnv, TRUE)
    /\ UNCHANGED <<user, table, blobs, njobs, now, session_state, clicks, page,
                   account, dashboard, hook>>

\* the sidebar's items-per-page slider is moved
ChangeItemsPerPage ==
    /\ manager.loaded
    /\ \E n \in items_per_page_options :
         /\ n # manager.items_per_page
         /\ manager' = run_manager([manager EXCEPT !.items_per_page = n],
                                   "sidebar", None, NoEnv, TRUE)
    /\ UNCHANGED <<user, table, blobs, njobs, now, session_state, clicks, page,
                   account, dashboard, hook>>

PressPrevious ==
    /\ manager.loaded
    /\ "previous" \in manager.offered
    /\ manager' = run_manager(manager, "previous", None, NoEnv, TRUE)
    /\ UNCHANGED <<user, table, blobs, njobs, now, session_state, clicks, page,
                   account, dashboard, hook>>

PressNext ==
    /\ manager.loaded
    /\ "next" \in manager.offered
    /\ manager' = run_manager(manager, "next", None, NoEnv, TRUE)
    /\ UNCHANGED <<user, table, blobs, njobs, now, session_state, clicks, page,
                   account, dashboard, hook>>

PressViewDetails ==
    /\ manager.loaded
    /\ "view" \in manager.offered
    /\ \E sel \in SelectOptions(manager), details_ok \in BOOLEAN :
         manager' = run_manager(manager, "view", sel, NoEnv, details_ok)
    /\ UNCHANGED <<user, table, blobs, njobs, now, session_state, clicks, page,
                   account, dashboard, hook>>

PressCloseDetails ==
    /\ manager.loaded
    /\ "close_details" \in manager.offered
    /\ manager' = run_manager(manager, "close_details", None, NoEnv, TRUE)
    /\ UNCHANGED <<user, table, blobs, njobs, now, session_state, clicks, page,
                   account, dashboard, hook>>

PressDelete ==
    /\ manager.loaded
    /\ "delete" \in manager.offered
    /\ \E sel \in SelectOptions(manager) :
         manager' = run_manager(manager, "delete", sel, NoEnv, TRUE)
    /\ UNCHANGED <<user, table, blobs, njobs, now, session_state, clicks, page,
                   account, dashboard, hook>>

\* a click on 'Confirm Delete', which the run after 'Delete Transcript'
\* shows; the selectbox keeps its value
PressConfirmDelete ==
    /\ manager.loaded
    /\ "confirm" \in manager.offered
    /\ \E env \in DeleteEnvs :
         manager' = run_manager(manager, "confirm", manager.selected, env, TRUE)
    /\ UNCHANGED <<user, table, blobs, njobs, now, session_state, clicks, page,
                   account, dashboard, hook>>

PressCancel ==
    /\ manager.loaded
    /\ "cancel" \in manager.offered
    /\ manager' = run_manager(manager, "cancel", manager.selected, NoEnv, TRUE)
    /\ UNCHANGED <<user, table, blobs, njobs, now, session_state, clicks, page,
                   account, dashboard, hook>>

\* the script has run once and loaded the vendor's listing
InitManager ==
    /\ user = LoggedOut
    /\ table = <<>>
    /\ blobs = {}
    /\ njobs = 0
    /\ now = 0
    /\ session_state = EmptySession
    /\ clicks = 0
    /\ page = NoPage
    /\ account = NoAccount
    /\ \E n \in ListedCounts :
         manager = run_manager([manager_defaults(NoManager) EXCEPT
                                   !.transcripts = ManagerListing(n)],
                               "none", None, NoEnv, TRUE)
    /\ dashboard = NoDashboard
    /\ hook = NoHook

NextManager ==
    \/ ChangeSearch
    \/ ChangeStatusFilter
    \/ ChangeItemsPerPage
    \/ PressPrevious
    \/ PressNext
    \/ PressViewDetails
    \/ PressCloseDetails
    \/ PressDelete
    \/ PressConfirmDelete
    \/ PressCancel

SpecManager == InitManager /\ [][NextManager]_vars

----------------------------------------------------------------------------
(* paginate on its own: a list of up to MaxListed transcripts, any         *)
(* items_per_page from 1 to MaxPerPage, and every page up to one beyond    *)
(* the last.                                                               *)

MaxPerPage == 4

InitPaginate ==
    /\ user = LoggedOut
    /\ table = <<>>
    /\ blobs = {}
    /\ njobs = 0
    /\ now = 0
    /\ session_state = EmptySession
    /\ clicks = 0
    /\ page = NoPage
    /\ account = NoAccount
    /\ \E n \in 0..MaxListed, per_page \in 1..MaxPerPage :
         manager = [manager_defaults(NoManager) EXCEPT
                      !.transcripts = ManagerListing(n),
                      !.filtered = ManagerListing(n),
                      !.items_per_page = per_page,
                      !.total_pages = total_pages_of(n, per_page),
                      !.paginated = 0]
    /\ dashboard = NoDashboard
    /\ hook = NoHook

\* paginate(filtered_transcripts, page, items_per_page) for one page
CallPaginate ==
    /\ manager.loaded
    /\ \E current \in 1..(manager.total_pages + 1) :
         manager' = [manager EXCEPT
                       !.paginated = current,
                       !.page_transcripts =
                           paginate(manager.filtered, current, manager.items_per_page)]
    /\ UNCHANGED <<user, table, blobs, njobs, now, session_state, clicks, page,
                   account, dashboard, hook>>

SpecPaginate == InitPaginate /\ [][CallPaginate]_vars

----------------------------------------------------------------------------
(* The admin dashboard: streamlit/pages/admin_dashboard.py *)

\* str.lower() of a status string
status_lower(st) ==
    CASE st = "COMPLETED"  -> "completed"
      [] st = "Completed"  -> "completed"
      [] st = "ERROR"      -> "error"
      [] st = "QUEUED"     -> "queued"
      [] st = "PROCESSING" -> "processing"
      [] OTHER             -> st

\* the options of the Status multiselect, ["completed"] its default
dashboard_options == {"completed", "error", "queued", "processing"}

VendorStatuses == {"queued", "processing", "completed", "error"}

\* the rows the listing can give: a status, and a teacher and creation day
DashboardRows ==
    { [Status |-> st, Teacher |-> <<"A">>, Created |-> 0] : st \in VendorStatuses }
    \cup { [Status |-> st, Teacher |-> <<"u">>, Created |-> 1] : st \in VendorStatuses }

\* st.date_input: a (start, end) pair, or one date while the user selects
DateRanges == { <<0, 0>>, <<0, 1>>, <<1, 1>>, <<0>> }

SearchQueries == { <<>>, <<"a">> }

\* the date, search and status filters over the rows (116-131)
dashboard_filter(rows, date_range, search_query, status_filter) ==
    LET dated == IF Len(date_range) = 2
                 THEN Comprehension(rows, [r \in Elements(rows) |->
                         r.Created >= date_range[1] /\ r.Created <= date_range[2]])
                 ELSE rows
        searched == IF search_query # <<>>
                    THEN Comprehension(dated, [r \in Elements(dated) |->
                            Contains(Lower(r.Teacher), Lower(search_query))])
                    ELSE dated
    IN IF status_filter # {}
       THEN Comprehension(searched, [r \in Elements(searched) |->
               status_lower(r.Status) \in { status_lower(x) : x \in status_filter }])
       ELSE searched

\* one run of the dashboard with the sidebar's filters set; a run reads
\* nothing that an earlier run left
RunDashboard ==
    /\ ~manager.loaded
    /\ ~dashboard.ran
    /\ \E date_range \in DateRanges, search_query \in SearchQueries,
          status_filter \in SUBSET dashboard_options :
         \/ \* transcriber.list_transcripts() raises
            dashboard' =
              [ran |-> TRUE, rows |-> <<>>, date_range |-> date_range,
               search_query |-> search_query, status_filter |-> status_filter,
               kept |-> <<>>, msgs |-> {"error_loading"}]
         \/ \E rows \in SeqsUpTo(DashboardRows, MaxLoaded) :
              dashboard' =
                [ran |-> TRUE, rows |-> rows, date_range |-> date_range,
                 search_query |-> search_query, status_filter |-> status_filter,
                 kept |-> dashboard_filter(rows, date_range, search_query, status_filter),
                 msgs |-> IF rows = <<>> THEN {"info_none"} ELSE {}]
    /\ UNCHANGED <<user, table, blobs, njobs, now, session_state, clicks, page,
                   account, manager, hook>>

\* what the dashboard rendered is discarded: the tab is closed or the
\* script is about to run again
CloseDashboard ==
    /\ dashboard.ran
    /\ dashboard' = NoDashboard
    /\ UNCHANGED <<user, table, blobs, njobs, now, session_state, clicks, page,
                   account, manager, hook>>

\* the tools before their first run.  The manager and the dashboard are
\* separate apps; the model follows one of them at a time
InitTools ==
    /\ user = LoggedOut
    /\ table = <<>>
    /\ blobs = {}
    /\ njobs = 0
    /\ now = 0
    /\ session_state = EmptySession
    /\ clicks = 0
    /\ page = NoPage
    /\ account = NoAccount
    /\ manager = NoManager
    /\ dashboard = NoDashboard
    /\ hook = NoHook

NextFilter ==
    \/ RunManager
    \/ ClickRefresh
    \/ CloseManager
    \/ RunDashboard
    \/ CloseDashboard

SpecFilter == InitTools /\ [][NextFilter]_vars

\* who can open the dashboard: nobody logged in, a teacher, an admin
Viewers ==
    { LoggedOut, TeacherAl,
      [is_logged_in |-> TRUE, email |-> <<"R", "o">>, email_verified |-> TRUE] }

InitDashboard ==
    /\ user \in Viewers
    /\ table = <<>>
    /\ blobs = {}
    /\ njobs = 0
    /\ now = 0
    /\ session_state = EmptySession
    /\ clicks = 0
    /\ page = NoPage
    /\ account = NoAccount
    /\ manager = NoManager
    /\ dashboard = NoDashboard
    /\ hook = NoHook

NextDashboard ==
    \/ RunDashboard
    \/ CloseDashboard

SpecDashboard == InitDashboard /\ [][NextDashboard]_vars

----------------------------------------------------------------------------
(* The webhook function: functions/SubmitTranscription handle_webhook *)

HookIds == { JobId(1), JobId(2) }

CallbackStatuses == {"completed", "error"}

\* how storing in Azure Storage can fail
StoreFailures == {"none", "config", "credential", "container", "upload"}

\* f"transcript_{timestamp}_{transcript_id}.json", the timestamp to the second
transcript_blob_name(t, tid) == <<"transcript", t, tid>>

Response(code, message, tid, logs) ==
    [code |-> code, message |-> message, transcript_id |-> tid, logs |-> logs]

\* one callback, from the request to the response
handle_webhook(h, t, status, tid, getFail, storeFail) ==
    IF status # "completed"
    THEN [h EXCEPT !.response = Response(200, "", EmptyId, {})]
    ELSE IF getFail
    THEN [h EXCEPT !.response = Response(500, "Error processing webhook", EmptyId,
                                         {"webhook_error"})]
    ELSE LET name == transcript_blob_name(t, tid)
             \* upload_blob does not overwrite: an existing name raises
             stored == storeFail = "none"
                       /\ name \notin { b.name : b \in h.transcriptions }
         IN [transcriptions |->
                IF stored
                THEN h.transcriptions \cup {[name |-> name, transcript_id |-> tid]}
                ELSE h.transcriptions,
             response |->
                Response(200, "Transcript received and stored", tid,
                         IF stored THEN {} ELSE {"store_error"})]

HandleWebhook ==
    /\ \E status \in CallbackStatuses, tid \in HookIds, getFail \in BOOLEAN,
          storeFail \in StoreFailures :
         hook' = handle_webhook(hook, now, status, tid, getFail, storeFail)
    /\ UNCHANGED <<user, table, blobs, njobs, now, session_state, clicks, page,
                   account, manager, dashboard>>

NextWebhook ==
    \/ HandleWebhook
    \/ Tick

SpecWebhook == InitTools /\ [][NextWebhook]_vars

----------------------------------------------------------------------------
(* The app: upload page and transcript list page over one table *)

LegacyEmails == { <<"a", "l">>, <<"b", "o">> }

OldKey == <<-1, <<"o">>>>

LegacyBase == [RowKey |-> OldKey, uploadTime |-> -1]

\* records the table holds from before: with or without an uploader, with
\* no transcript id, an empty one, or a test id
LegacyRecords ==
    { r \in
        { LegacyBase } \cup
        { WithField(LegacyBase, "uploaderEmail", e) : e \in LegacyEmails } \cup
        { WithField(LegacyBase, "transcriptId", t) : t \in {EmptyId, TestId} } \cup
        { WithField(WithField(LegacyBase, "uploaderEmail", e), "transcriptId", t) :
            e \in LegacyEmails, t \in {EmptyId, TestId} } : TRUE }

Init ==
    /\ user = LoggedOut
    /\ table \in {<<>>} \cup { <<r>> : r \in LegacyRecords }
    /\ blobs = {}
    /\ njobs = 0
    /\ now = 0
    /\ session_state = EmptySession
    /\ clicks = 0
    /\ page = NoPage
    /\ account = NoAccount
    /\ manager = NoManager
    /\ dashboard = NoDashboard
    /\ hook = NoHook

Next ==
    \/ Login
    \/ Logout
    \/ Tick
    \/ ClearPage
    \/ SubmitUpload
    \/ RunListPage

Spec == Init /\ [][Next]_vars

\* the upload page alone over the same table: the list page writes
\* neither the table, the blobs nor recent_uploads
NextUpload ==
    \/ Login
    \/ Logout
    \/ Tick
    \/ ClearPage
    \/ SubmitUpload

SpecUpload == Init /\ [][NextUpload]_vars

----------------------------------------------------------------------------
(* Claims about the app *)

ListDone == page.kind = "list" /\ page.ended = "done"

EqIgnoringCase(a, b) == Lower(a) = Lower(b)

NonAdmin(email) == \A a \in AdminSecret : ~EqIgnoringCase(email, a)

RowKeys(items) == { items[i].RowKey : i \in DOMAIN items }

\* C1: on the list page of a verified user who is not an admin, every
\* record the query returned, which is every item loaded and displayed,
\* carries an uploaderEmail equal to the user's email up to letter case.
C1_NonAdminSeesOnlyOwn ==
    (ListDone /\ user.is_logged_in /\ user.email_verified /\ NonAdmin(user.email))
    => \A i \in DOMAIN page.items :
          /\ HasKey(page.items[i], "uploaderEmail")
          /\ EqIgnoringCase(page.items[i].uploaderEmail, user.email)

\* a non-admin was shown a record of theirs while the table also held a
\* record of someone else
C1_Witness ==
    /\ ListDone /\ user.is_logged_in /\ user.email_verified /\ NonAdmin(user.email)
    /\ Len(page.items) >= 1
    /\ \E i \in DOMAIN table :
          \/ ~HasKey(table[i], "uploaderEmail")
          \/ ~EqIgnoringCase(table[i].uploaderEmail, user.email)

\* C3: a loaded record without the transcriptId key has status "pending"
\* and was not looked up in the status map, and no get_by_id call is made
\* for an item without a transcript id: every call carries the non-empty
\* transcript id of a displayed item.
C3_NoIdNoStatusQuery ==
    ListDone =>
      /\ \A i \in DOMAIN page.items :
            ~HasKey(page.items[i], "transcriptId") => page.items[i].status = "pending"
      /\ \A t \in page.lookups :
            \E i \in DOMAIN page.items :
               HasKey(page.items[i], "transcriptId") /\ page.items[i].transcriptId = t
      /\ \A c \in DOMAIN page.calls :
            /\ page.calls[c].tid # EmptyId
            /\ \E i \in 1..page.shown : item_tid(page.items[i]) = page.calls[c].tid

\* a record without a transcript id was loaded and displayed, after the
\* vendor's statuses had been listed
C3_Witness ==
    /\ ListDone /\ page.listed
    /\ \E i \in 1..page.shown :
          ~HasKey(page.items[i], "transcriptId") /\ page.items[i].status = "pending"

IsErrorMsg(m) == m \in {"error_upload", "error_storage", "error_transcribe",
                        "error_submission", "error_statuses", "error_loading",
                        "info_unavailable", "info_unable"}

\* C6 as claimed: a run in which a vendor call failed logged the failure,
\* showed an error message, and ended without an exception leaving it.
C6_UniformErrorHandling ==
    (page.kind \in {"list", "upload"} /\ page.failures # {})
    => /\ page.logs # {}
       /\ \E m \in page.msgs : IsErrorMsg(m)
       /\ page.ended = "done"

SameTidCalls(t) == { c \in DOMAIN page.calls : page.calls[c].tid = t }

\* C7 as claimed: in one run, no get_by_id call follows a failed get_by_id
\* call for the same transcript.
C7_NoSecondCall ==
    ListDone =>
      \A c, d \in DOMAIN page.calls :
         (c < d /\ page.calls[c].tid = page.calls[d].tid) => page.calls[c].ok

RetriedOutcomes(variant) ==
    IF variant = "src" THEN {"validation"} ELSE {"validation", "validation_api"}

\* C7 amended: in one run get_by_id is called at most twice for a
\* transcript, and a second call is made only right after the first raised
\* a pydantic ValidationError (in src, one whose text does not hold "api
\* error"); after any other failure there is no second call.
C7_OneRetryOnValidationError ==
    ListDone =>
      /\ \A c \in DOMAIN page.calls : Cardinality(SameTidCalls(page.calls[c].tid)) <= 2
      /\ \A c, d \in DOMAIN page.calls :
           (c < d /\ page.calls[c].tid = page.calls[d].tid)
           => /\ d = c + 1
              /\ page.calls[c].outcome \in RetriedOutcomes(page.variant)

\* get_by_id was called a second time for a transcript
C7_Witness ==
    /\ ListDone
    /\ \E c, d \in DOMAIN page.calls : c < d /\ page.calls[c].tid = page.calls[d].tid

\* C10 as claimed: a verified non-admin user whose table query did not fail
\* is shown every record that store_mapping_in_table wrote with their login
\* email.
C10_SeesEveryOwnUpload ==
    (ListDone /\ user.is_logged_in /\ user.email_verified /\ NonAdmin(user.email)
       /\ "table_query" \notin page.failures)
    => \A i \in DOMAIN table :
          (table[i].RowKey # OldKey /\ table[i].uploaderEmail = user.email)
          => table[i].RowKey \in RowKeys(page.items)

----------------------------------------------------------------------------
(* Claims about the list page against a vendor account *)

\* C2 as claimed: after a run whose status list did not fail, every loaded
\* record whose transcriptId names a job of the account carries the status
\* the vendor reported for that job at the run, whatever the number of jobs
\* in the account.
C2_StatusEqualsVendorStatus ==
    (ListDone /\ page.listed /\ "status_list" \notin page.failures)
    => \A i \in DOMAIN page.items :
          (HasKey(page.items[i], "transcriptId")
             /\ page.reported[page.items[i].transcriptId] # "absent")
          => page.items[i].status = page.reported[page.items[i].transcriptId]

UserCauses == {"open", "refresh_click", "load_more_click"}

\* C9 as claimed: the page polls again only once at least a second has
\* passed since its last poll, and a page showing a queued or processing
\* item is never left unpolled for more than that second.
C9_PollGatedByElapsedTime ==
    /\ (page.kind = "list" /\ page.repoll) => page.elapsed >= 1
    /\ (page.kind = "list" /\ page.refresh # {}) => now - page.at <= 1

\* C9 amended: a displayed item with a transcript id and status queued or
\* processing is rendered with a "Refresh Status" button, and no other item
\* is; the page polls the vendor again only in a run that a user action
\* starts, and the passing of time alone never starts one: no step in
\* which the clock advances changes the page.
C9_PollsOnlyOnUserAction ==
    /\ [](page.kind = "list" =>
            /\ page.cause \in UserCauses
            /\ \A i \in 1..page.shown :
                 (page.items[i].RowKey \in page.refresh)
                 <=> (item_tid(page.items[i]) # EmptyId
                        /\ page.items[i].status \in {"queued", "processing"}))
    /\ [][now' # now => page' = page]_vars

\* the page polled again, on a click, in the second of its last poll, and
\* showed the item still in progress
C9_Witness ==
    /\ page.kind = "list" /\ page.repoll /\ page.cause = "refresh_click"
    /\ page.elapsed = 0
    /\ page.refresh # {}

----------------------------------------------------------------------------
(* Claims about pagination *)

PerPage(ss) == ss["items_per_page"]

\* C5: once the page has run, items_per_page is 5 + 5k after k clicks on
\* 'Load More'; its first value is 5, and a step changes it only by adding
\* exactly 5, in a click on a 'Load More' button the page shows.
C5_ItemsPerPageIs5Plus5k ==
    /\ [](IF HasKey(session_state, "items_per_page")
          THEN PerPage(session_state) = 5 + 5 * clicks
          ELSE clicks = 0)
    /\ [][(~HasKey(session_state, "items_per_page")
             /\ HasKey(session_state', "items_per_page"))
          => PerPage(session_state') = 5]_vars
    /\ [][(HasKey(session_state, "items_per_page")
             /\ session_state' # session_state)
          => /\ PerPage(session_state') = PerPage(session_state) + 5
             /\ clicks' = clicks + 1
             /\ page.kind = "list" /\ page.load_more]_vars

\* after two clicks the page shows more than ten items, and other runs of
\* the page came between the clicks
C5_Witness ==
    /\ clicks = 2
    /\ PerPage(session_state) = 15
    /\ page.kind = "list" /\ page.cause = "refresh_click" /\ page.shown > 10

----------------------------------------------------------------------------
(* Claims about the status filters *)

\* r holds exactly the elements of t at the given positions, in the order
\* of t
IsExactSubsequence(r, t, positions) ==
    \E f \in [1..Len(r) -> 1..Len(t)] :
       /\ \A i, j \in 1..Len(r) : i < j => f[i] < f[j]
       /\ \A i \in 1..Len(r) : r[i] = t[f[i]]
       /\ { f[i] : i \in 1..Len(r) } = positions

\* the transcript passes the manager's search filter
PassesSearch(m, t) == filter_transcripts(<<t>>, m.search_term, "All") = <<t>>

\* the row passes the dashboard's date and search filters
PassesDateAndSearch(d, r) ==
    dashboard_filter(<<r>>, d.date_range, d.search_query, {}) = <<r>>

\* C4: with a status filter other than 'All' the manager's filtered list,
\* and so the page it displays, holds exactly the loaded transcripts whose
\* status equals the filter and that pass the search filter, in their
\* loaded order; with a non-empty status selection the dashboard keeps
\* exactly the rows whose status is in the selection and that pass the
\* date and search filters, in their order.
C4_StatusFilterExact ==
    /\ (manager.loaded /\ manager.status_filter # "All")
       => /\ IsExactSubsequence(manager.filtered, manager.transcripts,
                { j \in DOMAIN manager.transcripts :
                    /\ manager.transcripts[j].status = manager.status_filter
                    /\ PassesSearch(manager, manager.transcripts[j]) })
          /\ \A i \in DOMAIN manager.page_transcripts :
                /\ manager.page_transcripts[i].status = manager.status_filter
                /\ \E j \in DOMAIN manager.filtered :
                      manager.filtered[j] = manager.page_transcripts[i]
    /\ (dashboard.ran /\ dashboard.status_filter # {})
       => IsExactSubsequence(dashboard.kept, dashboard.rows,
             { j \in DOMAIN dashboard.rows :
                 /\ dashboard.rows[j].Status \in dashboard.status_filter
                 /\ PassesDateAndSearch(dashboard, dashboard.rows[j]) })

\* the manager, filtering by status, displays one of two loaded transcripts
C4_Witness ==
    /\ manager.loaded
    /\ manager.status_filter = "completed"
    /\ Len(manager.transcripts) = 2
    /\ manager.transcripts[1].status = "queued"
    /\ Len(manager.page_transcripts) = 1

----------------------------------------------------------------------------
(* Claims about the webhook function *)

\* C8 as claimed: when the last response is the 200 'Transcript received
\* and stored' for a transcript id, the 'transcriptions' container holds a
\* blob with that transcript id.
C8_StoredWhenAnswered ==
    (hook.response.code = 200
       /\ hook.response.message = "Transcript received and stored")
    => \E b \in hook.transcriptions : b.transcript_id = hook.response.transcript_id

----------------------------------------------------------------------------
(* Claims about who is shown records *)

\* C11: a run of the list page by a logged-in user whose email is not
\* verified queries no table, lists no vendor statuses, looks up and
\* fetches nothing and loads no record, whether or not the email is an
\* admin's.
C11_UnverifiedSeesNothing ==
    (ListDone /\ user.is_logged_in /\ ~user.email_verified)
    => /\ ~page.queried
       /\ ~page.listed
       /\ page.lookups = {}
       /\ page.calls = <<>>
       /\ page.items = <<>>
       /\ page.shown = 0

\* an admin whose email is not verified ran the page over a table that
\* holds a record
C11_Witness ==
    /\ ListDone /\ user.is_logged_in /\ ~user.email_verified
    /\ ~NonAdmin(user.email)
    /\ table # <<>>
    /\ "info_no_files" \in page.msgs

\* C12 as claimed: a run of the list page by a user who is not logged in
\* ends before the table client is created and before load_table_data is
\* called, reads no record and no status, and the navigation of the app
\* holds no Transcripts page.
C12_LoggedOutReadsNothing ==
    (page.kind = "list" /\ ~user.is_logged_in)
    => /\ ~page.table_client
       /\ ~page.loaded
       /\ ~page.queried /\ ~page.listed /\ page.calls = <<>> /\ page.items = <<>>
       /\ \A i \in DOMAIN page.nav : page.nav[i] # "transcripts"

\* C13 as claimed: a run of the admin dashboard that shows transcripts of
\* the vendor's listing was opened by a logged-in user whose email is in
\* the admin list.
C13_DashboardOnlyForAdmins ==
    (dashboard.ran /\ dashboard.kept # <<>>)
    => (user.is_logged_in /\ ~NonAdmin(user.email))

FullSteps ==
    <<"upload_to_azure", "submit_transcription", "store_mapping_in_table",
      "handle_successful_upload">>

IsPrefix(a, b) == Len(a) <= Len(b) /\ \A i \in 1..Len(a) : a[i] = b[i]

StepsOf(p) == { p.steps[i] : i \in DOMAIN p.steps }

RecentUploads(ss) == IF HasKey(ss, "recent_uploads") THEN ss["recent_uploads"] ELSE <<>>

\* C14: the calls of one submission are a prefix of blob upload,
\* transcription submit, table record write, recent_uploads append; the
\* record write is reached only with the blob stored and status 'queued',
\* so no record carries the transcript id 'error'; with an empty class
\* name or a failed blob upload nothing is submitted; a step that appends
\* to recent_uploads is one that wrote the record of the same blob and job.
C14_UploadStepsInOrder ==
    /\ [](page.kind = "upload" =>
            /\ IsPrefix(page.steps, FullSteps)
            /\ (page.outcome \in {"no_class", "upload_failed"}
                  => "submit_transcription" \notin StepsOf(page) /\ page.job = EmptyId)
            /\ ("store_mapping_in_table" \in StepsOf(page)
                  => /\ page.status = "queued"
                     /\ page.blob \in blobs
                     /\ page.job # <<"error">>))
    /\ [](\A i \in DOMAIN table :
            HasKey(table[i], "transcriptId") => table[i].transcriptId # <<"error">>)
    /\ [][(page'.kind = "upload" /\ page'.outcome \in {"no_class", "upload_failed"})
            => (njobs' = njobs /\ blobs' = blobs /\ table' = table)]_vars
    /\ [][table' # table
            => /\ page'.kind = "upload"
               /\ page'.status = "queued"
               /\ page'.blob \in blobs' \ blobs
               /\ njobs' = njobs + 1
               /\ Len(table') = Len(table) + 1
               /\ table'[Len(table')].RowKey = page'.blob
               /\ table'[Len(table')].transcriptId = page'.job]_vars
    /\ [][RecentUploads(session_state') # RecentUploads(session_state)
            => \/ RecentUploads(session_state') = <<>>
               \/ /\ table' # table
                  /\ RecentUploads(session_state') =
                        Append(RecentUploads(session_state),
                               [blob_name |-> page'.blob, transcript_id |-> page'.job])]_vars

C14_Witness ==
    /\ page.kind = "upload"
    /\ page.steps = FullSteps
    /\ table # <<>>
    /\ table[Len(table)].transcriptId = page.job
    /\ RecentUploads(session_state) = <<[blob_name |-> page.blob, transcript_id |-> page.job]>>

\* C15 as claimed: once the submit handler has finished with a job the
\* vendor queued and the blob stored, the table holds a row that maps the
\* blob to the job, also when the table write failed.
C15_QueuedJobHasUploadRecord ==
    (page.kind = "upload" /\ page.status = "queued" /\ page.blob \in blobs)
    => \E i \in DOMAIN table :
          /\ table[i].RowKey = page.blob
          /\ HasKey(table[i], "transcriptId")
          /\ table[i].transcriptId = page.job

\* C16 as claimed: the generated blob name is new, so an upload never
\* fails on a blob that already exists under that name.
C16_BlobNameIsUnique ==
    (page.kind = "upload" /\ page.outcome = "upload_failed")
    => page.name \notin blobs

\* C17 as claimed: the run started by a click on 'Confirm Delete', which
\* the run after 'Delete Transcript' offered, calls delete_transcript for
\* the selected transcript.
C17_ConfirmCallsDelete ==
    (manager.loaded /\ manager.pressed = "confirm")
    => manager.calls = <<manager.selected>>

TranscriptIds(m) == { m.transcripts[i].id : i \in DOMAIN m.transcripts }

CeilDiv(a, b) == CHOOSE k \in 0..a : k * b >= a /\ (k - 1) * b < a

\* C19: in every run that paginates, the page passed to paginate is
\* between 1 and total_pages = max(1, ceil(filtered count / items_per_page)),
\* and is the session's current_page; Previous is offered only with
\* current_page > 1 and Next only with current_page < total_pages.
C19_CurrentPageWithinPages ==
    manager.loaded =>
       /\ manager.total_pages =
             (IF manager.filtered = <<>> THEN 1
              ELSE CeilDiv(Len(manager.filtered), manager.items_per_page))
       /\ 1 <= manager.paginated
       /\ manager.paginated <= manager.total_pages
       /\ manager.paginated = manager.current_page
       /\ ("previous" \in manager.offered => manager.current_page > 1)
       /\ ("next" \in manager.offered => manager.current_page < manager.total_pages)

C19_Witness ==
    /\ manager.loaded
    /\ manager.adjusted
    /\ manager.pressed = "sidebar"
    /\ manager.current_page = 2
    /\ manager.total_pages = 2
    /\ manager.offered = {"previous", "view", "delete"}

\* the number of pages of n items at p a page: ceil(n / p)
PageCount(n, p) == IF n = 0 THEN 0 ELSE CeilDiv(n, p)

\* the items of the list that page k must hold: positions (k-1)p+1 .. kp
\* as far as the list goes
ExpectedSlice(items, k, p) ==
    LET first == (k - 1) * p
        len == IF first >= Len(items) THEN 0
               ELSE IF first + p > Len(items) THEN Len(items) - first ELSE p
    IN [i \in 1..len |-> items[first + i]]

\* C20: the slice paginate returned for page k of the n listed items is
\* items (k-1)p+1 .. min(kp, n) in the list's order: p items on every
\* page before the last, the rest (1..p items) on page ceil(n/p), none
\* beyond it; so the pages are pairwise disjoint and, concatenated, equal
\* the list.
C20_PaginatePartitions ==
    (manager.loaded /\ manager.paginated >= 1)
    => LET items == manager.filtered
           n == Len(items)
           p == manager.items_per_page
           k == manager.paginated
           slice == manager.page_transcripts
       IN /\ slice = ExpectedSlice(items, k, p)
          /\ (k < PageCount(n, p) => Len(slice) = p)
          /\ (k = PageCount(n, p) => (Len(slice) >= 1 /\ Len(slice) = n - (k - 1) * p))
          /\ (k > PageCount(n, p) => slice = <<>>)
          /\ \A i \in DOMAIN slice :
                /\ (k - 1) * p + i \in DOMAIN items
                /\ \A j \in DOMAIN items :
                      items[j] = slice[i] <=> j = (k - 1) * p + i

C20_Witness ==
    /\ manager.loaded
    /\ Len(manager.filtered) = 7
    /\ manager.items_per_page = 3
    /\ manager.paginated = 3
    /\ manager.page_transcripts = <<ListedTranscript(7)>>

\* the instant load_table_data is to take for a table row
ExpectedTime(r) ==
    IF HasKey(r, "uploadTime") /\ r.uploadTime # unparsable THEN r.uploadTime
    ELSE MIN_DATE

\* C21: the loaded list holds every row of the table once, each with its
\* upload timestamp (MIN_DATE for a row without a readable one), in
\* non-increasing order of that timestamp; the rendered items are its
\* first items_per_page, so none of them is older than an item that is
\* loaded but not rendered.
C21_NewestFirst ==
    ListDone =>
       /\ Len(page.items) = Len(table)
       /\ \A k \in DOMAIN table :
             \E i \in DOMAIN page.items :
                /\ page.items[i].RowKey = table[k].RowKey
                /\ page.items[i]["_timestamp"] = ExpectedTime(table[k])
                /\ page.items[i].uploadTime = ExpectedTime(table[k])
       /\ \A i, j \in DOMAIN page.items :
             i < j => page.items[i]["_timestamp"] >= page.items[j]["_timestamp"]
       /\ page.shown = Min(PerPage(session_state), Len(page.items))
       /\ page.refresh = { page.items[i].RowKey : i \in 1..page.shown }
       /\ \A i \in 1..page.shown : \A j \in (page.shown + 1)..Len(page.items) :
             page.items[i]["_timestamp"] >= page.items[j]["_timestamp"]

C21_Witness ==
    /\ ListDone
    /\ page.shown = 5
    /\ Len(page.items) > 5
    /\ HasKey(table[1], "uploadTime")
    /\ table[1].uploadTime = unparsable
    /\ table[Len(table)].uploadTime = 2
    /\ table[Len(table)].RowKey = page.items[1].RowKey
    /\ table[1].RowKey \notin page.refresh

\* C22: 'Load More' is offered exactly when items_per_page is less than
\* the number of loaded records, and its label gives the number of records
\* not displayed; over a fixed table the page displays min(n, 5 + 5k)
\* records after k clicks, each click displaying more records than before,
\* so that after enough clicks every record is displayed, and then the
\* button is not offered.
C22_LoadMoreUntilAllShown ==
    /\ [](ListDone =>
            /\ page.load_more <=> PerPage(session_state) < Len(page.items)
            /\ page.load_more => (page.remaining = Len(page.items) - page.shown
                                   /\ page.remaining >= 1)
            /\ page.shown = Min(Len(page.items), 5 + 5 * clicks)
            /\ ~page.load_more <=> page.shown = Len(page.items))
    /\ [][clicks' # clicks
            => /\ page.load_more
               /\ ListDone'
               /\ page'.shown > page.shown
               /\ page'.shown = Min(Len(page'.items), page.shown + 5)
               /\ page'.remaining < page.remaining]_vars

C22_Witness ==
    /\ ListDone
    /\ clicks = 2
    /\ Len(table) = MaxRecords
    /\ page.shown = MaxRecords
    /\ ~page.load_more
    /\ page.cause = "load_more_click"

====
